---- MODULE Spec2Model ----
(***************************************************************************)
(* Model of the voxel-structure interchange library: the universal         *)
(* schematic aggregate (src/src/schematic.rs) and the gzip + tag-tree      *)
(* schematic codec with its varint block array                             *)
(* (src/src/formats/schematic.rs).                                         *)
(*                                                                         *)
(* Conventions.                                                            *)
(*   Option<T>        a sequence of length <= 1: <<>> is None, <<v>> Some  *)
(*   Vec<T>           a sequence; Rust index i is TLA+ index i + 1         *)
(*   HashMap<K, V>    a function whose DOMAIN is the key set               *)
(*   Result / panic   a record with a "kind" field                         *)
(***************************************************************************)
EXTENDS Integers, Naturals, Sequences, FiniteSets, TLC

VARIABLES
    metadata,      \* UniversalSchematic.metadata
    regions,       \* UniversalSchematic.regions : name -> Region
    palette,       \* UniversalSchematic.palette : GlobalPalette (Vec<BlockState>)
    ops,           \* number of mutating calls made so far
    ret,           \* the last call and what it returned
    calls,         \* the names of the mutating calls made so far
    written,       \* the <<region name, coordinate>> pairs written by set_block calls
    file,          \* result of the last to_schematic call (the root tag tree)
    loaded,        \* result of the last from_schematic call
    vValue,        \* varint harness: the value handed to encode_varint
    vTail,         \* varint harness: the bytes that follow it in the stream
    vBytes,        \* varint harness: the stream, <<>> before encoding
    vResult,       \* varint harness: what decode_varint returned
    issued,        \* palette harness: block state -> the id its first get_or_insert returned
    lastMerged,    \* the merged region the last to_schematic call encoded
    conv,          \* codec harness: what convert_palette returned for a palette
    hdr            \* codec harness: the Width / Height / Length fields written for given dimensions

vars == <<metadata, regions, palette, ops, ret, calls, written, file, loaded,
          vValue, vTail, vBytes, vResult, issued, lastMerged, conv, hdr>>

schemVars == <<metadata, regions, palette, ops, ret, calls, written, file, loaded>>
varintVars == <<vValue, vTail, vBytes, vResult>>
codecVars == <<lastMerged, conv, hdr>>

(***************************************************************************)
(* Bounds of the model.                                                    *)
(***************************************************************************)
MaxSmallValue == 300   \* varint inputs 0..MaxSmallValue, plus the boundary values
MaxPaletteOps == 4     \* get_or_insert calls made by the palette harness
MaxOps == 2            \* mutating calls made on the schematic before it is encoded
MaxRun == 7            \* longest run of continuation bytes in a raw varint stream

(***************************************************************************)
(* Fixed-width integer helpers.                                            *)
(***************************************************************************)
Pow2(n) == 2 ^ n

Min(a, b) == IF a <= b THEN a ELSE b
Max(a, b) == IF a >= b THEN a ELSE b
Abs(a) == IF a < 0 THEN 0 - a ELSE a

\* bitwise & and | on naturals
RECURSIVE BitAnd(_, _)
BitAnd(a, b) ==
    IF a = 0 \/ b = 0 THEN 0
    ELSE (IF a % 2 = 1 /\ b % 2 = 1 THEN 1 ELSE 0) + 2 * BitAnd(a \div 2, b \div 2)

RECURSIVE BitOr(_, _)
BitOr(a, b) ==
    IF a = 0 THEN b
    ELSE IF b = 0 THEN a
    ELSE (IF a % 2 = 1 \/ b % 2 = 1 THEN 1 ELSE 0) + 2 * BitOr(a \div 2, b \div 2)

(***************************************************************************)
(* u32 values are pairs <<hi, lo>> of 16-bit halves (value = hi * 2^16 +   *)
(* lo), so that the whole 32-bit range is covered with its exact width.    *)
(***************************************************************************)
Half == Pow2(16)

U32FromNat(n) == <<(n \div Half) % Half, n % Half>>
U32Zero == <<0, 0>>
U32Max == <<Half - 1, Half - 1>>
\* the natural number a u32 below 2^31 stands for
U32ToNat(u) == u[1] * Half + u[2]

\* `x as i16` on an integer, `x as u32` on an i16 / i32 (sign extension),
\* `u as i32` on a u32 (two's complement)
AsI16(x) == LET m == x % Pow2(16) IN IF m >= Pow2(15) THEN m - Pow2(16) ELSE m
AsU32(x) == <<(x \div Half) % Half, x % Half>>
AsI32(u) == (IF u[1] >= Pow2(15) THEN u[1] - Half ELSE u[1]) * Half + u[2]
\* `b as i8` on a byte and `x as u8` on an i8
AsI8(b) == IF b >= 128 THEN b - 256 ELSE b
AsU8(x) == x % 256

\* (u & 0b0111_1111) as u8
U32Low7(u) == BitAnd(u[2], 127)
\* u >> 7
U32Shr7(u) == <<u[1] \div 128, (u[2] \div 128) + (u[1] % 128) * 512>>
\* (x as u32) << shift for a 7-bit x and shift < 32: bits shifted out are dropped
U32ShlSmall(x, shift) ==
    IF shift < 16
    THEN U32FromNat(x * Pow2(shift))
    ELSE <<(x * Pow2(shift - 16)) % Half, 0>>
\* a | b
U32Or(a, b) == <<BitOr(a[1], b[1]), BitOr(a[2], b[2])>>
\* the product of two 16-bit values as a u32 (it always fits)
Mul16(x, y) ==
    LET p == (x \div 256) * y
        q == (x % 256) * y
        mid == p + (q \div 256)
    IN  <<mid \div 256, (mid % 256) * 256 + (q % 256)>>
\* a * b on u32: the low 32 bits of the product, and whether the product
\* does not fit (a panic where overflow checks are compiled in)
U32Mul(a, b) ==
    LET low == Mul16(a[2], b[2])
        c1 == Mul16(a[1], b[2])
        c2 == Mul16(a[2], b[1])
        hi == c1[2] + c2[2] + low[1]
    IN  [value |-> <<hi % Half, low[2]>>,
         overflow |-> (a[1] # 0 /\ b[1] # 0) \/ c1[1] # 0 \/ c2[1] # 0 \/ hi >= Half]

(***************************************************************************)
(* Varint codec: encode_varint / decode_varint.                            *)
(***************************************************************************)
\* the loop of encode_varint: one iteration per emitted byte
RECURSIVE EncodeLoop(_, _)
EncodeLoop(val, bytes) ==
    LET low  == U32Low7(val)
        rest == U32Shr7(val)                         \* val >>= 7
        byte == IF rest # U32Zero THEN BitOr(low, 128) ELSE low
        out  == Append(bytes, byte)
    IN  IF rest = U32Zero THEN out ELSE EncodeLoop(rest, out)

\* a plausible slip: always five bytes (padded encoding)
RECURSIVE EncodePadded(_, _)
EncodePadded(val, n) ==
    IF n = 1 THEN <<U32Low7(val)>>
    ELSE <<BitOr(U32Low7(val), 128)>> \o EncodePadded(U32Shr7(val), n - 1)

encode_varint_padded(value) == EncodePadded(value, 5)

encode_varint(value) == EncodeLoop(value, <<>>)

\* the loop of decode_varint over a Cursor (data, pos): one iteration per byte read
RECURSIVE DecodeLoop(_, _, _, _)
DecodeLoop(data, pos, result, shift) ==
    IF pos >= Len(data)
    THEN [kind |-> "err", error |-> "UnexpectedEof", value |-> U32Zero, pos |-> pos]
    ELSE LET byte == data[pos + 1]
             res1 == U32Or(result, U32ShlSmall(BitAnd(byte, 127), shift))
         IN  IF BitAnd(byte, 128) = 0
             THEN [kind |-> "ok", error |-> "", value |-> res1, pos |-> pos + 1]
             ELSE IF shift + 7 >= 32
                  THEN [kind |-> "err", error |-> "Varint is too long",
                        value |-> U32Zero, pos |-> pos + 1]
                  ELSE DecodeLoop(data, pos + 1, res1, shift + 7)

\* a plausible slip: the shift advances by 8 instead of 7
RECURSIVE DecodeLoopShift8(_, _, _, _)
DecodeLoopShift8(data, pos, result, shift) ==
    IF pos >= Len(data)
    THEN [kind |-> "err", error |-> "UnexpectedEof", value |-> U32Zero, pos |-> pos]
    ELSE LET byte == data[pos + 1]
             res1 == U32Or(result, U32ShlSmall(BitAnd(byte, 127), shift))
         IN  IF BitAnd(byte, 128) = 0
             THEN [kind |-> "ok", error |-> "", value |-> res1, pos |-> pos + 1]
             ELSE IF shift + 8 >= 32
                  THEN [kind |-> "err", error |-> "Varint is too long",
                        value |-> U32Zero, pos |-> pos + 1]
                  ELSE DecodeLoopShift8(data, pos + 1, res1, shift + 8)

decode_varint_shift8(data, pos) == DecodeLoopShift8(data, pos, U32Zero, 0)

\* a plausible slip: no bound on the number of continuation bytes
RECURSIVE DecodeLoopUnbounded(_, _, _, _)
DecodeLoopUnbounded(data, pos, result, shift) ==
    IF pos >= Len(data)
    THEN [kind |-> "err", error |-> "UnexpectedEof", value |-> U32Zero, pos |-> pos]
    ELSE LET byte == data[pos + 1]
             res1 == IF shift < 32
                     THEN U32Or(result, U32ShlSmall(BitAnd(byte, 127), shift))
                     ELSE result
         IN  IF BitAnd(byte, 128) = 0
             THEN [kind |-> "ok", error |-> "", value |-> res1, pos |-> pos + 1]
             ELSE DecodeLoopUnbounded(data, pos + 1, res1, shift + 7)

decode_varint_unbounded(data, pos) == DecodeLoopUnbounded(data, pos, U32Zero, 0)

decode_varint(data, pos) == DecodeLoop(data, pos, U32Zero, 0)

(***************************************************************************)
(* Generic containers.                                                     *)
(***************************************************************************)
None == <<>>
Some(v) == <<v>>
IsSome(o) == Len(o) = 1
Unwrap(o) == o[1]

\* the tuple with the elements f[1], ..., f[n] of a function on 1..n
RECURSIVE TupleFrom(_, _, _)
TupleFrom(f, i, n) == IF i > n THEN <<>> ELSE <<f[i]>> \o TupleFrom(f, i + 1, n)

AsSeq(f) == TupleFrom(f, 1, Cardinality(DOMAIN f))

EmptyMap == [k \in {} |-> 0]
MapPut(m, k, v) == [x \in (DOMAIN m) \cup {k} |-> IF x = k THEN v ELSE m[x]]
MapRemove(m, k) == [x \in (DOMAIN m) \ {k} |-> m[x]]

\* every order in which a HashMap with key set S can be iterated
Orders(S) ==
    {o \in [1..Cardinality(S) -> S] : \A i, j \in 1..Cardinality(S) : o[i] = o[j] => i = j}

(***************************************************************************)
(* Block states.                                                           *)
(***************************************************************************)
\* BlockState { name, properties }; properties is a set of <<key, value>> pairs
BlockStateNew(name) == [name |-> name, properties |-> {}]

Air == BlockStateNew("minecraft:air")
Stone == BlockStateNew("minecraft:stone")
Dirt == BlockStateNew("minecraft:dirt")
WoolRed == [name |-> "minecraft:wool", properties |-> {<<"color", "red">>}]

(***************************************************************************)
(* GlobalPalette: append-only Vec<BlockState>, air inserted at id 0.       *)
(***************************************************************************)
GlobalPaletteNew == <<Air>>

PaletteLen(p) == Len(p)

\* get(id): the block state at id, or None when id is out of range
PaletteGet(p, id) == IF id >= 0 /\ id < Len(p) THEN Some(p[id + 1]) ELSE None

\* a plausible slip: a value-equal state is appended again instead of found
get_or_insert_always_append(p, block) ==
    [palette |-> Append(p, block), id |-> Len(p)]

\* get_or_insert(block): the id of the value-equal entry, else append
get_or_insert(p, block) ==
    IF \E i \in 1..Len(p) : p[i] = block
    THEN [palette |-> p,
          id |-> (CHOOSE i \in 1..Len(p) :
                     p[i] = block /\ \A j \in 1..(i - 1) : p[j] # block) - 1]
    ELSE [palette |-> Append(p, block), id |-> Len(p)]

(***************************************************************************)
(* BoundingBox: inclusive min / max corners.                               *)
(***************************************************************************)
BoundingBoxNew(min, max) == [min |-> min, max |-> max]

BBUnion(a, b) ==
    [min |-> <<Min(a.min[1], b.min[1]), Min(a.min[2], b.min[2]), Min(a.min[3], b.min[3])>>,
     max |-> <<Max(a.max[1], b.max[1]), Max(a.max[2], b.max[2]), Max(a.max[3], b.max[3])>>]

BBContains(bb, c) ==
    \A i \in 1..3 : bb.min[i] <= c[i] /\ c[i] <= bb.max[i]

BBGetDimensions(bb) ==
    <<Abs(bb.max[1] - bb.min[1]) + 1,
      Abs(bb.max[2] - bb.min[2]) + 1,
      Abs(bb.max[3] - bb.min[3]) + 1>>

\* origin .. origin + size - 1, normalised so that min <= max for a negative size
BBFromPositionAndSize(position, size) ==
    LET lo(i) == IF size[i] >= 0 THEN position[i] ELSE position[i] + size[i] + 1
        hi(i) == IF size[i] >= 0 THEN position[i] + size[i] - 1 ELSE position[i]
    IN  [min |-> <<lo(1), lo(2), lo(3)>>, max |-> <<hi(1), hi(2), hi(3)>>]

(***************************************************************************)
(* Region: a named cuboid of palette ids, block entities and entities.     *)
(***************************************************************************)
Volume(size) == Abs(size[1] * size[2] * size[3])

RegionNew(name, position, size) ==
    [name |-> name, position |-> position, size |-> size,
     blocks |-> AsSeq([i \in 1..Volume(size) |-> 0]),
     palette |-> <<Air>>,
     entities |-> <<>>,
     block_entities |-> EmptyMap]

RegionGetBoundingBox(r) == BBFromPositionAndSize(r.position, r.size)

RegionIsInRegion(r, c) == BBContains(RegionGetBoundingBox(r), c)

\* index = ((y_local * size.z) + z_local) * size.x + x_local
CoordsToIndex(r, c) ==
    LET bb == RegionGetBoundingBox(r)
        dx == c[1] - bb.min[1]
        dy == c[2] - bb.min[2]
        dz == c[3] - bb.min[3]
    IN  ((dy * Abs(r.size[3])) + dz) * Abs(r.size[1]) + dx

\* the coordinate stored at a flattened index (inverse of CoordsToIndex)
IndexToCoords(r, idx) ==
    LET bb == RegionGetBoundingBox(r)
        sx == Abs(r.size[1])
        sz == Abs(r.size[3])
    IN  <<bb.min[1] + (idx % sx),
          bb.min[2] + (idx \div (sx * sz)),
          bb.min[3] + ((idx \div sx) % sz)>>

\* get_block_index: the stored id, or None outside the bounds
RegionGetBlockIndex(r, c) ==
    IF RegionIsInRegion(r, c) /\ CoordsToIndex(r, c) < Len(r.blocks)
    THEN Some(r.blocks[CoordsToIndex(r, c) + 1])
    ELSE None

\* set_block_index: false and no mutation outside the current bounds
RegionSetBlockIndex(r, c, id) ==
    IF RegionIsInRegion(r, c) /\ CoordsToIndex(r, c) < Len(r.blocks)
    THEN [region |-> [r EXCEPT !.blocks[CoordsToIndex(r, c) + 1] = id], ok |-> TRUE]
    ELSE [region |-> r, ok |-> FALSE]

\* expand_to_fit: grow to the union with the point, remap every stored id,
\* fill the new cells with air
expand_to_fit(r, c) ==
    LET nb == BBUnion(RegionGetBoundingBox(r), BoundingBoxNew(c, c))
        shell == [r EXCEPT !.position = nb.min, !.size = BBGetDimensions(nb)]
        cell(i) == LET old == RegionGetBlockIndex(r, IndexToCoords(shell, i - 1))
                   IN  IF IsSome(old) THEN Unwrap(old) ELSE 0
    IN  IF shell.size = r.size /\ shell.position = r.position THEN r
        ELSE [shell EXCEPT !.blocks = AsSeq([i \in 1..Volume(shell.size) |-> cell(i)])]

\* add_block_entity: keyed by position, last write wins
RegionAddBlockEntity(r, be) ==
    [r EXCEPT !.block_entities = MapPut(r.block_entities, be.position, be)]

RegionRemoveBlockEntity(r, pos) ==
    IF pos \in DOMAIN r.block_entities
    THEN [region |-> [r EXCEPT !.block_entities = MapRemove(r.block_entities, pos)],
          ok |-> TRUE]
    ELSE [region |-> r, ok |-> FALSE]

RegionAddEntity(r, e) == [r EXCEPT !.entities = Append(r.entities, e)]

\* remove_entity(index): removal shifts the later entities down
RegionRemoveEntity(r, index) ==
    IF index < Len(r.entities)
    THEN [region |-> [r EXCEPT !.entities =
                         SubSeq(r.entities, 1, index) \o
                         SubSeq(r.entities, index + 2, Len(r.entities))],
          ok |-> TRUE]
    ELSE [region |-> r, ok |-> FALSE]


(***************************************************************************)
(* Entities and block entities.                                            *)
(***************************************************************************)
\* BlockEntity::new(id, position); position is an absolute block coordinate
BlockEntityNew(id, position) == [id |-> id, position |-> position]

\* Entity::new(id, position); the f64 position is kept in half-block units
EntityNew(id, position) == [id |-> id, position |-> position]

\* f64::round() as i32 on a half-unit value: half-way cases away from zero
RoundHalf(h) == IF h >= 0 THEN (h + 1) \div 2 ELSE 0 - ((1 - h) \div 2)

(***************************************************************************)
(* UniversalSchematic: named regions + schematic-wide palette.             *)
(***************************************************************************)
\* UniversalSchematic::new(name)
UniversalSchematicNew(name) ==
    [metadata |-> [name |-> Some(name), mc_version |-> None],
     regions |-> EmptyMap,
     palette |-> GlobalPaletteNew]

\* a plausible slip: the region is created anew on every write
set_block_in_region_recreate(rs, pal, region_name, c, block) ==
    LET region == expand_to_fit(RegionNew(region_name, c, <<1, 1, 1>>), c)
        gi == get_or_insert(pal, block)
        sb == RegionSetBlockIndex(region, c, gi.id)
    IN  [regions |-> MapPut(rs, region_name, sb.region),
         palette |-> gi.palette, ok |-> sb.ok]

\* a plausible slip: the write happens without growing the region first
set_block_in_region_no_expand(rs, pal, region_name, c, block) ==
    LET region == IF region_name \in DOMAIN rs THEN rs[region_name]
                  ELSE RegionNew(region_name, c, <<1, 1, 1>>)
        gi == get_or_insert(pal, block)
        sb == RegionSetBlockIndex(region, c, gi.id)
    IN  [regions |-> MapPut(rs, region_name, sb.region),
         palette |-> gi.palette, ok |-> sb.ok]

\* set_block_in_region: entry(name).or_insert_with(Region::new(name, c, (1,1,1))),
\* expand_to_fit, palette.get_or_insert, set_block_index
set_block_in_region(rs, pal, region_name, c, block) ==
    LET region == IF region_name \in DOMAIN rs THEN rs[region_name]
                  ELSE RegionNew(region_name, c, <<1, 1, 1>>)
        grown == expand_to_fit(region, c)
        gi == get_or_insert(pal, block)
        sb == RegionSetBlockIndex(grown, c, gi.id)
    IN  [regions |-> MapPut(rs, region_name, sb.region),
         palette |-> gi.palette, ok |-> sb.ok]

\* a plausible slip: palette id 0 is treated as "no block"
get_block_from_region_skip_air(rs, pal, region_name, c) ==
    IF region_name \notin DOMAIN rs THEN None
    ELSE LET idx == RegionGetBlockIndex(rs[region_name], c)
         IN  IF IsSome(idx) /\ Unwrap(idx) # 0 THEN PaletteGet(pal, Unwrap(idx)) ELSE None

\* get_block_from_region: regions.get(name), get_block_index, palette.get
get_block_from_region(rs, pal, region_name, c) ==
    IF region_name \notin DOMAIN rs THEN None
    ELSE LET idx == RegionGetBlockIndex(rs[region_name], c)
         IN  IF IsSome(idx) THEN PaletteGet(pal, Unwrap(idx)) ELSE None

\* the loop of get_block over regions.values() in the iteration order `order`
RECURSIVE GetBlockLoop(_, _, _, _, _)
GetBlockLoop(rs, pal, order, i, c) ==
    IF i > Len(order) THEN None
    ELSE LET region == rs[order[i]]
             found == get_block_from_region(rs, pal, region.name, c)
         IN  IF BBContains(RegionGetBoundingBox(region), c) /\ IsSome(found)
             THEN found
             ELSE GetBlockLoop(rs, pal, order, i + 1, c)

get_block(rs, pal, order, c) == GetBlockLoop(rs, pal, order, 1, c)

\* a plausible slip: an existing region of that name is overwritten
add_region_overwrite(rs, region) ==
    [regions |-> MapPut(rs, region.name, region), ok |-> TRUE]

\* add_region: false when the name exists, else insert under region.name
add_region(rs, region) ==
    IF region.name \in DOMAIN rs
    THEN [regions |-> rs, ok |-> FALSE]
    ELSE [regions |-> MapPut(rs, region.name, region), ok |-> TRUE]

remove_region(rs, name) ==
    [regions |-> MapRemove(rs, name), ok |-> name \in DOMAIN rs]

add_block_entity_in_region(rs, region_name, block_entity) ==
    LET region == IF region_name \in DOMAIN rs THEN rs[region_name]
                  ELSE RegionNew(region_name, block_entity.position, <<1, 1, 1>>)
    IN  [regions |-> MapPut(rs, region_name, RegionAddBlockEntity(region, block_entity)),
         ok |-> TRUE]

remove_block_entity_in_region(rs, region_name, position) ==
    IF region_name \notin DOMAIN rs THEN [regions |-> rs, ok |-> FALSE]
    ELSE LET r == RegionRemoveBlockEntity(rs[region_name], position)
         IN  [regions |-> MapPut(rs, region_name, r.region), ok |-> r.ok]

add_entity_in_region(rs, region_name, entity) ==
    LET rounded == <<RoundHalf(entity.position[1]), RoundHalf(entity.position[2]),
                     RoundHalf(entity.position[3])>>
        region == IF region_name \in DOMAIN rs THEN rs[region_name]
                  ELSE RegionNew(region_name, rounded, <<1, 1, 1>>)
    IN  [regions |-> MapPut(rs, region_name, RegionAddEntity(region, entity)),
         ok |-> TRUE]

remove_entity_in_region(rs, region_name, index) ==
    IF region_name \notin DOMAIN rs THEN [regions |-> rs, ok |-> FALSE]
    ELSE LET r == RegionRemoveEntity(rs[region_name], index)
         IN  [regions |-> MapPut(rs, region_name, r.region), ok |-> r.ok]

\* get_bounding_box: union of every region's box, starting from the sentinel
I32Max == 2147483647
I32Min == (0 - I32Max) - 1

RECURSIVE BBUnionAll(_, _, _, _)
BBUnionAll(rs, order, i, acc) ==
    IF i > Len(order) THEN acc
    ELSE BBUnionAll(rs, order, i + 1, BBUnion(acc, RegionGetBoundingBox(rs[order[i]])))

get_bounding_box(rs, order) ==
    BBUnionAll(rs, order, 1,
               BoundingBoxNew(<<I32Max, I32Max, I32Max>>, <<I32Min, I32Min, I32Min>>))

(***************************************************************************)
(* Tag tree (the generic tag-tree library): tagged values; a compound is   *)
(* a function from keys to tagged values.                                  *)
(***************************************************************************)
Nbt(tag, value) == [tag |-> tag, value |-> value]

\* compound.get::<_, T>(key): fails when the key is absent or holds another tag
NbtGet(compound, key, tag) ==
    IF key \in DOMAIN compound /\ compound[key].tag = tag
    THEN Some(compound[key].value)
    ELSE None

SeqRange(q) == {q[i] : i \in 1..Len(q)}

\* flat_map / extend: concatenation of a sequence of sequences
RECURSIVE Flatten(_)
Flatten(qq) == IF qq = <<>> THEN <<>> ELSE Head(qq) \o Flatten(Tail(qq))

\* some enumeration of a finite set (HashMap iteration within one region)
RECURSIVE SetToSeq(_)
SetToSeq(S) ==
    IF S = {} THEN <<>>
    ELSE LET x == CHOOSE x \in S : TRUE IN <<x>> \o SetToSeq(S \ {x})

(***************************************************************************)
(* Tag mappings of metadata, block entities and entities.                  *)
(***************************************************************************)
MetadataToNbt(md) ==
    IF IsSome(md.name)
    THEN [k \in {"Name"} |-> Nbt("String", Unwrap(md.name))]
    ELSE EmptyMap

BlockEntityToNbt(be) ==
    Nbt("Compound", [k \in {"Id", "Pos"} |->
                        IF k = "Id" THEN Nbt("String", be.id)
                        ELSE Nbt("IntArray", be.position)])

BlockEntityFromNbt(compound) ==
    [id |-> Unwrap(NbtGet(compound, "Id", "String")),
     position |-> Unwrap(NbtGet(compound, "Pos", "IntArray"))]

EntityToNbt(e) ==
    Nbt("Compound", [k \in {"Id", "Pos"} |->
                        IF k = "Id" THEN Nbt("String", e.id)
                        ELSE Nbt("List", e.position)])

EntityFromNbt(compound) ==
    [id |-> Unwrap(NbtGet(compound, "Id", "String")),
     position |-> Unwrap(NbtGet(compound, "Pos", "List"))]

(***************************************************************************)
(* Region merge: one synthetic region with one dense local palette.        *)
(***************************************************************************)
\* the block state at an absolute coordinate: the first region in `order`
\* whose box contains it, translated through the schematic-wide palette;
\* air where no region covers it
RECURSIVE MergedStateAt(_, _, _, _, _)
MergedStateAt(rs, pal, order, i, c) ==
    IF i > Len(order) THEN Air
    ELSE LET region == rs[order[i]]
             idx == RegionGetBlockIndex(region, c)
         IN  IF IsSome(idx)
             THEN (IF IsSome(PaletteGet(pal, Unwrap(idx)))
                   THEN Unwrap(PaletteGet(pal, Unwrap(idx))) ELSE Air)
             ELSE MergedStateAt(rs, pal, order, i + 1, c)

\* ids in scan order of first occurrence
RECURSIVE FirstOccurrences(_, _, _)
FirstOccurrences(states, i, acc) ==
    IF i > Len(states) THEN acc
    ELSE FirstOccurrences(states, i + 1,
                          IF states[i] \in SeqRange(acc) THEN acc
                          ELSE Append(acc, states[i]))

IndexOf(q, v) == CHOOSE i \in 1..Len(q) : q[i] = v

\* a plausible slip: the schematic-wide palette and the source ids are kept
get_merged_region_keep_ids(rs, pal, order) ==
    LET bb == get_bounding_box(rs, order)
        shell == RegionNew("Merged", bb.min, BBGetDimensions(bb))
        states == AsSeq([i \in 1..Volume(shell.size) |->
                      MergedStateAt(rs, pal, order, 1, IndexToCoords(shell, i - 1))])
    IN  [shell EXCEPT !.palette = pal,
                      !.blocks = AsSeq([i \in 1..Len(states) |-> IndexOf(pal, states[i]) - 1])]

get_merged_region(rs, pal, order) ==
    LET bb == get_bounding_box(rs, order)
        shell == RegionNew("Merged", bb.min, BBGetDimensions(bb))
        states == AsSeq([i \in 1..Volume(shell.size) |->
                      MergedStateAt(rs, pal, order, 1, IndexToCoords(shell, i - 1))])
        merged == FirstOccurrences(states, 1, <<>>)
    IN  [shell EXCEPT !.palette = merged,
                      !.blocks = AsSeq([i \in 1..Len(states) |-> IndexOf(merged, states[i]) - 1])]

(***************************************************************************)
(* Schematic codec: palette keys.                                          *)
(***************************************************************************)
\* a palette key is the token sequence of the string `identifier` or
\* `identifier[key=value,...]`
RECURSIVE FormatProperties(_)
FormatProperties(props) ==
    IF props = {} THEN <<>>
    ELSE LET kv == CHOOSE kv \in props : TRUE
             rest == props \ {kv}
         IN  <<kv[1], "=", kv[2]>> \o
             (IF rest = {} THEN <<>> ELSE <<",">> \o FormatProperties(rest))

FormatBlockState(bs) ==
    IF bs.properties = {} THEN <<bs.name>>
    ELSE <<bs.name, "[">> \o FormatProperties(bs.properties) \o <<"]">>

\* trim_end_matches(']')
RECURSIVE TrimEndBrackets(_)
TrimEndBrackets(toks) ==
    IF toks # <<>> /\ toks[Len(toks)] = "]"
    THEN TrimEndBrackets(SubSeq(toks, 1, Len(toks) - 1))
    ELSE toks

\* split(',') then splitn(2, '='): a piece without '=' is dropped by filter_map
RECURSIVE ParseProperties(_, _)
ParseProperties(toks, acc) ==
    IF toks = <<>> THEN acc
    ELSE LET commas == {i \in 1..Len(toks) : toks[i] = ","}
             stop == IF commas = {} THEN Len(toks) + 1
                     ELSE CHOOSE i \in commas : \A j \in commas : i <= j
             piece == SubSeq(toks, 1, stop - 1)
             rest == SubSeq(toks, stop + 1, Len(toks))
             acc1 == IF Len(piece) >= 3 /\ piece[2] = "="
                     THEN {kv \in acc : kv[1] # piece[1]} \cup {<<piece[1], piece[3]>>}
                     ELSE acc
         IN  ParseProperties(rest, acc1)

\* parse_block_state: split_once('[')
parse_block_state(key) ==
    IF Len(key) >= 2 /\ key[2] = "["
    THEN [name |-> key[1],
          properties |-> ParseProperties(TrimEndBrackets(SubSeq(key, 3, Len(key))), {})]
    ELSE BlockStateNew(key[1])

\* convert_palette: "minecraft:air" -> 0 first, then every entry whose name
\* is not air under its key with its index; max_id over the entries written
RECURSIVE ConvertPaletteLoop(_, _, _, _)
ConvertPaletteLoop(pal, id, compound, max_id) ==
    IF id >= Len(pal) THEN [compound |-> compound, max_id |-> max_id]
    ELSE LET block_state == pal[id + 1]
         IN  IF block_state.name = "minecraft:air"
             THEN ConvertPaletteLoop(pal, id + 1, compound, max_id)
             ELSE ConvertPaletteLoop(pal, id + 1,
                      MapPut(compound, FormatBlockState(block_state), Nbt("Int", id)),
                      Max(max_id, id))

convert_palette(pal) ==
    ConvertPaletteLoop(pal, 0, [k \in {<<"minecraft:air">>} |-> Nbt("Int", 0)], 0)

\* parse_palette: vec![air; PaletteMax + 1], then palette[id] = parsed key
\* for every Int entry, in the compound's iteration order `porder`
RECURSIVE ParsePaletteLoop(_, _, _, _)
ParsePaletteLoop(compound, porder, i, pal) ==
    IF i > Len(porder) THEN [kind |-> "ok", error |-> "", palette |-> pal]
    ELSE LET entry == compound[porder[i]]
         IN  IF entry.tag # "Int"
             THEN ParsePaletteLoop(compound, porder, i + 1, pal)
             ELSE IF entry.value < 0 \/ entry.value >= Len(pal)
                  THEN [kind |-> "panic", error |-> "index out of bounds", palette |-> <<>>]
                  ELSE ParsePaletteLoop(compound, porder, i + 1,
                           [pal EXCEPT ![entry.value + 1] = parse_block_state(porder[i])])

\* a plausible slip: the array is sized PaletteMax instead of PaletteMax + 1
parse_palette_short(root, porder, overflow_checks) ==
    LET palette_compound == NbtGet(root, "Palette", "Compound")
        palette_max == NbtGet(root, "PaletteMax", "Int")
    IN  IF ~IsSome(palette_compound) \/ ~IsSome(palette_max)
        THEN [kind |-> "err", error |-> "Palette", palette |-> <<>>]
        ELSE ParsePaletteLoop(Unwrap(palette_compound), porder, 1,
                              AsSeq([i \in 1..Unwrap(palette_max) |-> Air]))

\* `PaletteMax as usize` sign-extends a negative value: for -1 the sum
\* palette_max + 1 overflows (a panic with overflow checks, 0 without), for
\* any other negative value the array cannot be allocated
parse_palette(root, porder, overflow_checks) ==
    LET palette_compound == NbtGet(root, "Palette", "Compound")
        palette_max == NbtGet(root, "PaletteMax", "Int")
    IN  IF ~IsSome(palette_compound)
        THEN [kind |-> "err", error |-> "Palette", palette |-> <<>>]
        ELSE IF ~IsSome(palette_max)
        THEN [kind |-> "err", error |-> "PaletteMax", palette |-> <<>>]
        ELSE IF Unwrap(palette_max) < 0 - 1
        THEN [kind |-> "panic", error |-> "capacity overflow", palette |-> <<>>]
        ELSE IF Unwrap(palette_max) = 0 - 1 /\ overflow_checks
        THEN [kind |-> "panic", error |-> "attempt to add with overflow", palette |-> <<>>]
        ELSE ParsePaletteLoop(Unwrap(palette_compound), porder, 1,
                              AsSeq([i \in 1..(Unwrap(palette_max) + 1) |-> Air]))

(***************************************************************************)
(* Schematic codec: block data.                                            *)
(***************************************************************************)
\* while reader.position() < len: decode_varint, push; stop at the first error
RECURSIVE DecodeAll(_, _, _)
DecodeAll(data, pos, acc) ==
    IF pos >= Len(data) THEN [kind |-> "ok", values |-> acc]
    ELSE LET r == decode_varint(data, pos)
         IN  IF r.kind = "ok" THEN DecodeAll(data, r.pos, Append(acc, r.value))
             ELSE [kind |-> "err", values |-> acc]

\* expected_length = (width * height * length) as usize is computed after the
\* stream is decoded: a u32 product that does not fit panics where overflow
\* checks are compiled in and wraps where they are not; the comparison with
\* the decoded count only prints
parse_block_data(root, width, height, length, overflow_checks) ==
    LET block_data_i8 == NbtGet(root, "BlockData", "ByteArray")
        wh == U32Mul(width, height)
        whl == U32Mul(wh.value, length)
    IN  IF ~IsSome(block_data_i8)
        THEN [kind |-> "err", error |-> "BlockData", block_data |-> <<>>]
        ELSE IF overflow_checks /\ (wh.overflow \/ whl.overflow)
        THEN [kind |-> "panic", error |-> "attempt to multiply with overflow",
              block_data |-> <<>>]
        ELSE LET i8s == Unwrap(block_data_i8)
                 block_data_u8 == AsSeq([i \in 1..Len(i8s) |-> AsU8(i8s[i])])
             IN  [kind |-> "ok", error |-> "",
                  block_data |-> DecodeAll(block_data_u8, 0, <<>>).values]

parse_block_entities(root) ==
    LET list == NbtGet(root, "BlockEntities", "List")
    IN  IF ~IsSome(list) THEN [kind |-> "err", error |-> "BlockEntities", items |-> <<>>]
        ELSE LET compounds == SelectSeq(Unwrap(list), LAMBDA t : t.tag = "Compound")
             IN  [kind |-> "ok", error |-> "",
                  items |-> AsSeq([i \in 1..Len(compounds) |->
                                BlockEntityFromNbt(compounds[i].value)])]

parse_entities(root) ==
    IF "Entities" \notin DOMAIN root THEN [kind |-> "ok", error |-> "", items |-> <<>>]
    ELSE LET list == NbtGet(root, "Entities", "List")
         IN  IF ~IsSome(list) THEN [kind |-> "err", error |-> "Entities", items |-> <<>>]
             ELSE LET compounds == SelectSeq(Unwrap(list), LAMBDA t : t.tag = "Compound")
                  IN  [kind |-> "ok", error |-> "",
                       items |-> AsSeq([i \in 1..Len(compounds) |->
                                     EntityFromNbt(compounds[i].value)])]

(***************************************************************************)
(* Schematic codec: to_schematic / from_schematic on the root tag tree.    *)
(* gzip and the tag-tree byte serialisation belong to external libraries   *)
(* and are not part of the model: the file is its root compound.           *)
(***************************************************************************)
DefaultDataVersion == 1343
FormatVersion == 2

\* is_schematic: a buffer is not gzip data ("not_gzip"), gzip data that is
\* not a tag tree ("not_nbt"), or the gzip of a root compound ("ok").  The
\* statements under cfg(feature = "web") name JsValue, which the module does
\* not import, so no build contains them.
\* a plausible slip: the block data is not looked at
is_schematic_no_block_data(data) ==
    IF data.kind # "ok" THEN [kind |-> "ok", value |-> FALSE]
    ELSE [kind |-> "ok",
          value |-> /\ IsSome(NbtGet(data.root, "Version", "Int"))
                    /\ IsSome(NbtGet(data.root, "DataVersion", "Int"))
                    /\ IsSome(NbtGet(data.root, "Width", "Short"))
                    /\ IsSome(NbtGet(data.root, "Height", "Short"))
                    /\ IsSome(NbtGet(data.root, "Length", "Short"))]

is_schematic(data) ==
    IF data.kind = "not_gzip" THEN [kind |-> "ok", value |-> FALSE]
    ELSE IF data.kind = "not_nbt" THEN [kind |-> "ok", value |-> FALSE]
    ELSE [kind |-> "ok",
          value |-> /\ IsSome(NbtGet(data.root, "Version", "Int"))
                    /\ IsSome(NbtGet(data.root, "DataVersion", "Int"))
                    /\ IsSome(NbtGet(data.root, "Width", "Short"))
                    /\ IsSome(NbtGet(data.root, "Height", "Short"))
                    /\ IsSome(NbtGet(data.root, "Length", "Short"))
                    /\ IsSome(NbtGet(data.root, "BlockData", "ByteArray"))]

RootFields == {"Version", "DataVersion", "Width", "Height", "Length", "Size", "Offset",
               "Palette", "PaletteMax", "BlockData", "BlockEntities", "Entities",
               "Metadata"}

\* (x as i16).abs(): the cast keeps the low 16 bits; abs of i16::MIN does
\* not fit, which panics where overflow checks are compiled in (debug
\* profile) and yields i16::MIN where they are not (release profile)
AbsI16(x, overflow_checks) ==
    LET v == AsI16(x)
    IN  IF v = 0 - Pow2(15)
        THEN (IF overflow_checks THEN [kind |-> "panic", value |-> 0]
              ELSE [kind |-> "ok", value |-> v])
        ELSE [kind |-> "ok", value |-> Abs(v)]

\* the Width, Height and Length short fields for the bounding box dimensions
SchematicDimensions(dims, overflow_checks) ==
    LET w == AbsI16(dims[1], overflow_checks)
        h == AbsI16(dims[2], overflow_checks)
        l == AbsI16(dims[3], overflow_checks)
    IN  IF w.kind = "ok" /\ h.kind = "ok" /\ l.kind = "ok"
        THEN [kind |-> "ok", width |-> w.value, height |-> h.value, length |-> l.value]
        ELSE [kind |-> "panic", width |-> 0, height |-> 0, length |-> 0]

to_schematic(md, rs, pal, order, overflow_checks) ==
    LET bounding_box == get_bounding_box(rs, order)
        dims == BBGetDimensions(bounding_box)
        shorts == SchematicDimensions(dims, overflow_checks)
        merged_region == get_merged_region(rs, pal, order)
        cp == convert_palette(merged_region.palette)
        block_data == Flatten(AsSeq([i \in 1..Len(merged_region.blocks) |->
                                  encode_varint(AsU32(merged_region.blocks[i]))]))
        recheck == DecodeAll(block_data, 0, <<>>)
        block_entities ==
            Flatten(AsSeq([i \in 1..Len(order) |->
                LET bes == rs[order[i]].block_entities
                    keys == SetToSeq(DOMAIN bes)
                IN  AsSeq([j \in 1..Len(keys) |-> BlockEntityToNbt(bes[keys[j]])])]))
        entities ==
            Flatten(AsSeq([i \in 1..Len(order) |->
                LET es == rs[order[i]].entities
                IN  AsSeq([j \in 1..Len(es) |-> EntityToNbt(es[j])])]))
        value(k) ==
            CASE k = "Version" -> Nbt("Int", FormatVersion)
              [] k = "DataVersion" ->
                    Nbt("Int", IF IsSome(md.mc_version) THEN Unwrap(md.mc_version)
                               ELSE DefaultDataVersion)
              [] k = "Width" -> Nbt("Short", shorts.width)
              [] k = "Height" -> Nbt("Short", shorts.height)
              [] k = "Length" -> Nbt("Short", shorts.length)
              [] k = "Size" -> Nbt("IntArray", dims)
              [] k = "Offset" -> Nbt("IntArray", <<0, 0, 0>>)
              [] k = "Palette" -> Nbt("Compound", cp.compound)
              [] k = "PaletteMax" -> Nbt("Int", cp.max_id)
              [] k = "BlockData" ->
                    Nbt("ByteArray", AsSeq([i \in 1..Len(block_data) |-> AsI8(block_data[i])]))
              [] k = "BlockEntities" -> Nbt("List", block_entities)
              [] k = "Entities" -> Nbt("List", entities)
              [] k = "Metadata" -> Nbt("Compound", MetadataToNbt(md))
    IN  IF shorts.kind # "ok"
        THEN [kind |-> "panic", root |-> EmptyMap]
        ELSE IF recheck.kind # "ok"
        THEN [kind |-> "err", root |-> EmptyMap]
        ELSE [kind |-> "ok", root |-> [k \in RootFields |-> value(k)]]

FromErr(kind, error) ==
    [kind |-> kind, error |-> error,
     metadata |-> [name |-> None, mc_version |-> None],
     regions |-> EmptyMap, palette |-> <<>>]

RECURSIVE AddBlockEntities(_, _, _)
AddBlockEntities(region, items, i) ==
    IF i > Len(items) THEN region
    ELSE AddBlockEntities(RegionAddBlockEntity(region, items[i]), items, i + 1)

RECURSIVE AddEntities(_, _, _)
AddEntities(region, items, i) ==
    IF i > Len(items) THEN region
    ELSE AddEntities(RegionAddEntity(region, items[i]), items, i + 1)

\* a plausible slip: the stored name is ignored
FromSchematicNameIgnored(root) == "Unnamed"

\* the display name: Metadata.Name, else the literal "Unnamed"
FromSchematicName(root) ==
    LET md == NbtGet(root, "Metadata", "Compound")
        name == IF IsSome(md) THEN NbtGet(Unwrap(md), "Name", "String") ELSE None
    IN  IF IsSome(name) THEN Unwrap(name) ELSE "Unnamed"

from_schematic(root, porder, overflow_checks) ==
    LET name == FromSchematicName(root)
        mc_version == NbtGet(root, "DataVersion", "Int")
        fresh == UniversalSchematicNew(name)
        width == NbtGet(root, "Width", "Short")
        height == NbtGet(root, "Height", "Short")
        length == NbtGet(root, "Length", "Short")
    IN  IF ~IsSome(width) THEN FromErr("err", "Width")
        ELSE IF ~IsSome(height) THEN FromErr("err", "Height")
        ELSE IF ~IsSome(length) THEN FromErr("err", "Length")
        ELSE
        LET w == AsU32(Unwrap(width))
            h == AsU32(Unwrap(height))
            l == AsU32(Unwrap(length))
            pp == parse_palette(root, porder, overflow_checks)
        IN  IF pp.kind # "ok" THEN FromErr(pp.kind, pp.error)
            ELSE
            LET bd == parse_block_data(root, w, h, l, overflow_checks)
            IN  IF bd.kind # "ok" THEN FromErr(bd.kind, bd.error)
                ELSE
                LET shell == RegionNew("Main", <<0, 0, 0>>, <<AsI32(w), AsI32(h), AsI32(l)>>)
                    region0 == [shell EXCEPT
                                   !.palette = pp.palette,
                                   !.blocks = AsSeq([i \in 1..Len(bd.block_data) |->
                                                  U32ToNat(bd.block_data[i])])]
                    pbe == parse_block_entities(root)
                IN  IF pbe.kind # "ok" THEN FromErr(pbe.kind, pbe.error)
                    ELSE
                    LET region1 == AddBlockEntities(region0, pbe.items, 1)
                        pe == parse_entities(root)
                    IN  IF pe.kind # "ok" THEN FromErr(pe.kind, pe.error)
                        ELSE
                        LET region2 == AddEntities(region1, pe.items, 1)
                        IN  [kind |-> "ok", error |-> "",
                             metadata |-> [fresh.metadata EXCEPT !.mc_version = mc_version],
                             regions |-> add_region(fresh.regions, region2).regions,
                             palette |-> fresh.palette]

(***************************************************************************)
(* Initial state: UniversalSchematic::new(name), nothing encoded yet.      *)
(***************************************************************************)
DefaultRegionName == "Main"

NoRet == [op |-> "none", name |-> "", pos |-> <<0, 0, 0>>, block |-> Air,
          ok |-> FALSE, id |-> 0]

NoFile == [kind |-> "none"]
NoLoaded == [kind |-> "none"]
NoDecode == [kind |-> "none", error |-> "", value |-> U32Zero, pos |-> 0]
NoMerged == [kind |-> "none"]
NoConv == [kind |-> "none"]
NoHdr == [kind |-> "none"]

SchematicFresh ==
    LET s == UniversalSchematicNew("Test Schematic")
    IN  /\ metadata = s.metadata
        /\ regions = s.regions
        /\ palette = s.palette
        /\ ops = 0
        /\ ret = NoRet
        /\ calls = {}
        /\ written = {}
        /\ loaded = NoLoaded
        /\ issued = EmptyMap
        /\ lastMerged = NoMerged

SchematicInit == SchematicFresh /\ file = NoFile

CodecIdle ==
    /\ conv = NoConv
    /\ hdr = NoHdr

VarintIdle ==
    /\ vValue = U32Zero
    /\ vTail = <<>>
    /\ vBytes = <<>>
    /\ vResult = NoDecode

(***************************************************************************)
(* Operations on the schematic: build, then encode, then decode.           *)
(***************************************************************************)
\* the coordinates written to: growth in both directions of x, upwards in
\* y, downwards in z, and boxes with interior cells that are never written
Coords == {<<0 - 1, 0, 0>>, <<0, 0, 0>>, <<1, 0, 0>>, <<0, 1, 0>>, <<0, 0, 0 - 1>>,
           <<1, 1, 0 - 1>>}

\* the cells looked at: every cell of the box around Coords, one beyond it
\* on each side
Probes == {<<x, y, z>> : x \in (0 - 2)..2, y \in (0 - 1)..2, z \in (0 - 2)..3}

WriteBlocks == {Air, Stone, WoolRed}
RegionNames == {"Main", "Custom"}

AddRegionInputs ==
    {RegionNew(n, <<0, 0, 0>>, sz) : n \in RegionNames, sz \in {<<1, 1, 1>>, <<2, 2, 1>>}}

BlockEntityInputs ==
    {BlockEntityNew(id, p) : id \in {"minecraft:chest", "minecraft:furnace"},
                             p \in {<<0, 0, 0>>, <<0, 0, 2>>}}

\* (0.5, 0.0, 0.5) and (-0.5, 1.0, 0.5) in half-block units
EntityInputs ==
    {EntityNew("minecraft:creeper", <<1, 0, 1>>),
     EntityNew("minecraft:pig", <<0 - 1, 2, 1>>)}

Building == ops < MaxOps /\ file.kind = "none"

Called(op, name, pos, block, ok) ==
    [NoRet EXCEPT !.op = op, !.name = name, !.pos = pos, !.block = block, !.ok = ok]

\* set_block(x, y, z, block) is set_block_in_region(default_region_name, ...)
SetBlockInRegion(region_name, c, block) ==
    LET r == set_block_in_region(regions, palette, region_name, c, block)
    IN  /\ Building
        /\ regions' = r.regions
        /\ palette' = r.palette
        /\ ret' = Called("set_block_in_region", region_name, c, block, r.ok)
        /\ calls' = calls \cup {"set_block_in_region"}
        /\ written' = written \cup {<<region_name, c>>}
        /\ ops' = ops + 1
        /\ UNCHANGED <<metadata, file, loaded, issued>>
        /\ UNCHANGED varintVars
        /\ UNCHANGED codecVars

AddRegion(region) ==
    LET r == add_region(regions, region)
    IN  /\ Building
        /\ regions' = r.regions
        /\ ret' = Called("add_region", region.name, region.position, Air, r.ok)
        /\ calls' = calls \cup {"add_region"}
        /\ UNCHANGED written
        /\ ops' = ops + 1
        /\ UNCHANGED <<metadata, palette, file, loaded, issued>>
        /\ UNCHANGED varintVars
        /\ UNCHANGED codecVars

RemoveRegion(name) ==
    LET r == remove_region(regions, name)
    IN  /\ Building
        /\ regions' = r.regions
        /\ ret' = Called("remove_region", name, <<0, 0, 0>>, Air, r.ok)
        /\ calls' = calls \cup {"remove_region"}
        /\ UNCHANGED written
        /\ ops' = ops + 1
        /\ UNCHANGED <<metadata, palette, file, loaded, issued>>
        /\ UNCHANGED varintVars
        /\ UNCHANGED codecVars

\* add_block_entity(be) is add_block_entity_in_region(default_region_name, be)
AddBlockEntityInRegion(region_name, be) ==
    LET r == add_block_entity_in_region(regions, region_name, be)
    IN  /\ Building
        /\ regions' = r.regions
        /\ ret' = Called("add_block_entity_in_region", region_name, be.position, Air, r.ok)
        /\ calls' = calls \cup {"add_block_entity_in_region"}
        /\ UNCHANGED written
        /\ ops' = ops + 1
        /\ UNCHANGED <<metadata, palette, file, loaded, issued>>
        /\ UNCHANGED varintVars
        /\ UNCHANGED codecVars

RemoveBlockEntityInRegion(region_name, pos) ==
    LET r == remove_block_entity_in_region(regions, region_name, pos)
    IN  /\ Building
        /\ regions' = r.regions
        /\ ret' = Called("remove_block_entity_in_region", region_name, pos, Air, r.ok)
        /\ calls' = calls \cup {"remove_block_entity_in_region"}
        /\ UNCHANGED written
        /\ ops' = ops + 1
        /\ UNCHANGED <<metadata, palette, file, loaded, issued>>
        /\ UNCHANGED varintVars
        /\ UNCHANGED codecVars

AddEntityInRegion(region_name, e) ==
    LET r == add_entity_in_region(regions, region_name, e)
    IN  /\ Building
        /\ regions' = r.regions
        /\ ret' = Called("add_entity_in_region", region_name, e.position, Air, r.ok)
        /\ calls' = calls \cup {"add_entity_in_region"}
        /\ UNCHANGED written
        /\ ops' = ops + 1
        /\ UNCHANGED <<metadata, palette, file, loaded, issued>>
        /\ UNCHANGED varintVars
        /\ UNCHANGED codecVars

RemoveEntityInRegion(region_name, index) ==
    LET r == remove_entity_in_region(regions, region_name, index)
    IN  /\ Building
        /\ regions' = r.regions
        /\ ret' = Called("remove_entity_in_region", region_name, <<index, 0, 0>>, Air, r.ok)
        /\ calls' = calls \cup {"remove_entity_in_region"}
        /\ UNCHANGED written
        /\ ops' = ops + 1
        /\ UNCHANGED <<metadata, palette, file, loaded, issued>>
        /\ UNCHANGED varintVars
        /\ UNCHANGED codecVars

\* to_schematic on a schematic with at least one region (with none the
\* bounding box is the sentinel and callers must check emptiness first)
ToSchematic(order, overflow_checks) ==
    /\ file.kind = "none"
    /\ DOMAIN regions # {}
    /\ file' = to_schematic(metadata, regions, palette, order, overflow_checks)
    /\ lastMerged' = [kind |-> "ok", order |-> order,
                      region |-> get_merged_region(regions, palette, order)]
    /\ ret' = Called("to_schematic", "", <<0, 0, 0>>, Air, TRUE)
    /\ UNCHANGED <<metadata, regions, palette, ops, calls, written, loaded, issued>>
    /\ UNCHANGED varintVars
    /\ UNCHANGED <<conv, hdr>>

\* the buffer handed to from_schematic: the encoded file, whole or with one
\* root field missing
WithoutField(root, drop) == [k \in (DOMAIN root) \ {drop} |-> root[k]]

\* "" stands for the whole file
DropChoices == {"", "Version", "DataVersion", "Width", "Height", "Length", "BlockData"}

PaletteOrders(root) ==
    IF IsSome(NbtGet(root, "Palette", "Compound"))
    THEN Orders(DOMAIN Unwrap(NbtGet(root, "Palette", "Compound")))
    ELSE {<<>>}

FromSchematic(drop) ==
    /\ file.kind = "ok"
    /\ loaded.kind = "none"
    /\ \E porder \in PaletteOrders(WithoutField(file.root, drop)),
          overflow_checks \in BOOLEAN :
           loaded' = from_schematic(WithoutField(file.root, drop), porder, overflow_checks)
    /\ ret' = Called("from_schematic", drop, <<0, 0, 0>>, Air, TRUE)
    /\ UNCHANGED <<metadata, regions, palette, ops, calls, written, file, issued>>
    /\ UNCHANGED varintVars
    /\ UNCHANGED codecVars

Next ==
    \/ \E n \in RegionNames, c \in Coords, b \in WriteBlocks : SetBlockInRegion(n, c, b)
    \/ \E r \in AddRegionInputs : AddRegion(r)
    \/ \E n \in RegionNames : RemoveRegion(n)
    \/ \E n \in RegionNames, be \in BlockEntityInputs : AddBlockEntityInRegion(n, be)
    \/ \E n \in RegionNames, be \in BlockEntityInputs :
           RemoveBlockEntityInRegion(n, be.position)
    \/ \E n \in RegionNames, e \in EntityInputs : AddEntityInRegion(n, e)
    \/ \E n \in RegionNames, i \in 0..1 : RemoveEntityInRegion(n, i)
    \/ \E order \in Orders(DOMAIN regions), overflow_checks \in BOOLEAN :
           ToSchematic(order, overflow_checks)
    \/ \E drop \in DropChoices : FromSchematic(drop)

Init == SchematicInit /\ VarintIdle /\ CodecIdle

Spec == Init /\ [][Next]_vars

(***************************************************************************)
(* Varint harness: encode one value into a stream, decode the stream       *)
(* (test_varint_encoding_decoding; to_schematic lines 69-80).              *)
(***************************************************************************)
VarintInputs ==
    {U32FromNat(n) : n \in 0..MaxSmallValue}
    \cup {U32FromNat(Pow2(k) - 1) : k \in {7, 14, 21, 28}}
    \cup {U32FromNat(Pow2(k)) : k \in {7, 14, 21, 28}}
    \cup {U32FromNat(n) : n \in {255, 256, 65535, 65536}}
    \cup {<<32767, 65535>>, <<32768, 0>>, <<43690, 21845>>, U32Max}

VarintTails == {<<>>, <<0>>, <<129, 1>>, <<255>>}

VarintInit ==
    /\ vValue \in VarintInputs
    /\ vTail \in VarintTails
    /\ vBytes = <<>>
    /\ vResult = NoDecode

VarintEncode ==
    /\ vBytes = <<>>
    /\ vBytes' = encode_varint(vValue) \o vTail
    /\ UNCHANGED <<vValue, vTail, vResult>>
    /\ UNCHANGED schemVars
    /\ UNCHANGED issued
    /\ UNCHANGED codecVars

VarintDecode ==
    /\ vBytes # <<>>
    /\ vResult.kind = "none"
    /\ vResult' = decode_varint(vBytes, 0)
    /\ UNCHANGED <<vValue, vTail, vBytes>>
    /\ UNCHANGED schemVars
    /\ UNCHANGED issued
    /\ UNCHANGED codecVars

VarintNext == VarintEncode \/ VarintDecode

InitVarint == SchematicInit /\ VarintInit /\ CodecIdle

SpecVarint == InitVarint /\ [][VarintNext]_vars

(***************************************************************************)
(* Palette harness: get_or_insert calls on one GlobalPalette               *)
(* (test_palette_operations).                                              *)
(***************************************************************************)
PaletteBlocks ==
    {Air, Stone, Dirt, WoolRed,
     [name |-> "minecraft:wool", properties |-> {<<"color", "blue">>}],
     [name |-> "minecraft:stone", properties |-> {<<"color", "red">>}]}

PaletteGetOrInsert(block) ==
    LET r == get_or_insert(palette, block)
    IN  /\ ops < MaxPaletteOps
        /\ palette' = r.palette
        /\ ops' = ops + 1
        /\ ret' = [NoRet EXCEPT !.op = "get_or_insert", !.block = block,
                                !.ok = TRUE, !.id = r.id]
        /\ issued' = IF block \in DOMAIN issued THEN issued
                     ELSE MapPut(issued, block, r.id)
        /\ UNCHANGED <<metadata, regions, calls, written, file, loaded>>
        /\ UNCHANGED varintVars
        /\ UNCHANGED codecVars

PaletteNext == \E block \in PaletteBlocks : PaletteGetOrInsert(block)

InitPalette == SchematicInit /\ VarintIdle /\ CodecIdle

SpecPalette == InitPalette /\ [][PaletteNext]_vars

(***************************************************************************)
(* Codec harness: the decoder and the format sniff on hand-made files, and *)
(* the pure pieces of the encoder on inputs of their own.                  *)
(***************************************************************************)
\* a palette compound given as <<block state, id>> entries; `extra` adds an
\* entry that is not an Int, which parse_palette skips
PaletteCompound(entries, extra) ==
    LET keys == {FormatBlockState(e[1]) : e \in entries}
        note == <<"comment">>
    IN  [k \in keys \cup (IF extra THEN {note} ELSE {}) |->
            IF k = note /\ extra THEN Nbt("String", "x")
            ELSE Nbt("Int", (CHOOSE e \in entries : FormatBlockState(e[1]) = k)[2])]

WoolRedNorth ==
    [name |-> "minecraft:wool", properties |-> {<<"color", "red">>, <<"facing", "north">>}]

\* dense, with holes, without air, two keys on one id, with a non-Int entry
CraftedPalettes ==
    {[entries |-> {<<Air, 0>>, <<Stone, 1>>, <<WoolRed, 2>>}, max |-> 2, extra |-> FALSE],
     [entries |-> {<<Air, 0>>, <<Stone, 2>>}, max |-> 3, extra |-> FALSE],
     [entries |-> {<<Stone, 1>>, <<WoolRedNorth, 3>>}, max |-> 4, extra |-> FALSE],
     [entries |-> {<<Air, 0>>, <<Stone, 0>>}, max |-> 0, extra |-> FALSE],
     [entries |-> {<<Air, 0>>, <<Dirt, 1>>}, max |-> 1, extra |-> TRUE],
     [entries |-> {}, max |-> 2, extra |-> FALSE]}

CraftedDims == {<<1, 1, 1>>, <<2, 1, 1>>, <<2, 1, 2>>}

\* a run of n bytes with the continuation bit set
RECURSIVE ContinuationRun(_)
ContinuationRun(n) == IF n = 0 THEN <<>> ELSE <<129>> \o ContinuationRun(n - 1)

\* well-formed streams of 0, 1, 2, 4 and 5 ids and of one two-byte id, then
\* streams with a varint that is too long or cut short
CraftedBlockData ==
    {<<>>, <<0>>, <<1, 0>>, <<0, 1, 2, 0>>, <<1, 2, 0, 1, 2>>, <<172, 2>>,
     <<1>> \o ContinuationRun(5) \o <<0, 2>>,
     ContinuationRun(6) \o <<1>>,
     <<1, 2, 129>>}

CraftedRoot(dims, pal, bytes) ==
    [k \in RootFields |->
        CASE k = "Version" -> Nbt("Int", FormatVersion)
          [] k = "DataVersion" -> Nbt("Int", DefaultDataVersion)
          [] k = "Width" -> Nbt("Short", dims[1])
          [] k = "Height" -> Nbt("Short", dims[2])
          [] k = "Length" -> Nbt("Short", dims[3])
          [] k = "Size" -> Nbt("IntArray", dims)
          [] k = "Offset" -> Nbt("IntArray", <<0, 0, 0>>)
          [] k = "Palette" -> Nbt("Compound", PaletteCompound(pal.entries, pal.extra))
          [] k = "PaletteMax" -> Nbt("Int", pal.max)
          [] k = "BlockData" ->
                Nbt("ByteArray", AsSeq([i \in 1..Len(bytes) |-> AsI8(bytes[i])]))
          [] k = "BlockEntities" -> Nbt("List", <<>>)
          [] k = "Entities" -> Nbt("List", <<>>)
          [] k = "Metadata" -> Nbt("Compound", [n \in {"Name"} |-> Nbt("String", "Crafted")])]

\* a well-formed file: stone and red wool side by side
SniffSample ==
    [kind |-> "ok",
     root |-> CraftedRoot(<<2, 1, 1>>,
                  [entries |-> {<<Air, 0>>, <<Stone, 1>>, <<WoolRed, 2>>}, max |-> 2,
                   extra |-> FALSE],
                  <<1, 2>>)]

SniffFields == {"Version", "DataVersion", "Width", "Height", "Length", "BlockData"}

\* the same field holding a value of another primitive type
Retyped(root, field) ==
    [root EXCEPT ![field] =
        IF @.tag = "Int" THEN Nbt("Short", @.value)
        ELSE IF @.tag = "Short" THEN Nbt("Int", @.value)
        ELSE Nbt("IntArray", @.value)]

\* buffers that are not schematic files, or are one with a field gone or retyped
SniffFiles ==
    {[kind |-> "not_gzip", root |-> EmptyMap], [kind |-> "not_nbt", root |-> EmptyMap],
     SniffSample}
    \cup {[kind |-> "ok", root |-> WithoutField(SniffSample.root, f)] : f \in SniffFields}
    \cup {[kind |-> "ok", root |-> Retyped(SniffSample.root, f)] : f \in SniffFields}

CraftedFiles ==
    {[kind |-> "ok", root |-> CraftedRoot(d, p, b)] :
        d \in CraftedDims, p \in CraftedPalettes, b \in CraftedBlockData}
    \cup SniffFiles

\* palettes of files no encoder writes: a negative id, an id above
\* PaletteMax, a negative PaletteMax with and without entries
HostilePalettes ==
    {[entries |-> {<<Air, 0>>, <<Stone, 0 - 1>>}, max |-> 1, extra |-> FALSE],
     [entries |-> {<<Air, 0>>, <<Stone, 3>>}, max |-> 1, extra |-> FALSE],
     [entries |-> {}, max |-> 0 - 1, extra |-> FALSE],
     [entries |-> {<<Air, 0>>}, max |-> 0 - 1, extra |-> FALSE],
     [entries |-> {}, max |-> 0 - 2, extra |-> FALSE]}

\* negative Width, Height or Length; as u32 the product of the last three
\* does not fit 32 bits
HostileDims == {<<0 - 1, 1, 1>>, <<0 - 1, 2, 1>>, <<0 - 2, 0 - 2, 1>>, <<1, 1, 0 - 3>>}

HostileFiles ==
    {[kind |-> "ok", root |-> CraftedRoot(<<1, 1, 1>>, p, <<0>>)] : p \in HostilePalettes}
    \cup {[kind |-> "ok",
           root |-> CraftedRoot(d, [entries |-> {<<Air, 0>>, <<Stone, 1>>}, max |-> 1,
                                    extra |-> FALSE], b)] :
             d \in HostileDims, b \in {<<0>>, <<1, 0>>}}

\* palettes handed to convert_palette: distinct block states in any order
ConvertInputs ==
    LET states == {Air, Stone, Dirt, WoolRed}
    IN  UNION {{q \in [1..n -> states] : \A i, j \in 1..n : q[i] = q[j] => i = j} : n \in 0..3}

\* bounding box dimensions around the limits of a short
DimInputs ==
    {<<w, h, l>> : w \in {1, 2, Pow2(15) - 1, Pow2(15), 40001, Pow2(16), Pow2(16) + 1},
                   h \in {1, 2}, l \in {1, 3}}

\* raw streams: a run of continuation bytes, then nothing or ordinary bytes
RawStreams ==
    {ContinuationRun(n) \o tail : n \in 0..MaxRun, tail \in {<<>>, <<1>>, <<1, 5>>, <<0, 129>>}}
    \ {<<>>}

InitCodec ==
    /\ SchematicFresh
    /\ file \in CraftedFiles \cup HostileFiles \cup {NoFile}
    /\ VarintIdle
    /\ CodecIdle

IsSchematic ==
    LET r == is_schematic(file)
    IN  /\ file.kind # "none"
        /\ ret.op # "is_schematic"
        /\ ret' = Called("is_schematic", r.kind, <<0, 0, 0>>, Air, r.value)
        /\ UNCHANGED <<metadata, regions, palette, ops, calls, written, file, loaded, issued>>
        /\ UNCHANGED varintVars
        /\ UNCHANGED codecVars

ConvertPalette(pal) ==
    LET r == convert_palette(pal)
    IN  /\ file.kind = "none"
        /\ ret.op = "none"
        /\ conv' = [kind |-> "ok", input |-> pal, compound |-> r.compound, max_id |-> r.max_id]
        /\ ret' = Called("convert_palette", "", <<0, 0, 0>>, Air, TRUE)
        /\ UNCHANGED <<metadata, regions, palette, ops, calls, written, file, loaded, issued>>
        /\ UNCHANGED varintVars
        /\ UNCHANGED <<lastMerged, hdr>>

EncodeDimensions(dims, overflow_checks) ==
    LET r == SchematicDimensions(dims, overflow_checks)
    IN  /\ file.kind = "none"
        /\ ret.op = "none"
        /\ hdr' = [kind |-> r.kind, dims |-> dims, overflow_checks |-> overflow_checks,
                   width |-> r.width, height |-> r.height, length |-> r.length]
        /\ ret' = Called("to_schematic", "", dims, Air, r.kind = "ok")
        /\ UNCHANGED <<metadata, regions, palette, ops, calls, written, file, loaded, issued>>
        /\ UNCHANGED varintVars
        /\ UNCHANGED <<lastMerged, conv>>

DecodeRaw(stream) ==
    /\ file.kind = "none"
    /\ ret.op = "none"
    /\ vBytes' = stream
    /\ vResult' = decode_varint(stream, 0)
    /\ ret' = Called("decode_varint", "", <<0, 0, 0>>, Air, TRUE)
    /\ UNCHANGED <<vValue, vTail>>
    /\ UNCHANGED <<metadata, regions, palette, ops, calls, written, file, loaded, issued>>
    /\ UNCHANGED codecVars

NextCodec ==
    \/ IsSchematic
    \/ \E drop \in DropChoices : FromSchematic(drop)
    \/ \E pal \in ConvertInputs : ConvertPalette(pal)
    \/ \E dims \in DimInputs, overflow_checks \in BOOLEAN :
           EncodeDimensions(dims, overflow_checks)
    \/ \E stream \in RawStreams : DecodeRaw(stream)

SpecCodec == InitCodec /\ [][NextCodec]_vars

(***************************************************************************)
(* Claims about the varint codec.                                          *)
(***************************************************************************)
\* the encoded prefix of the stream (the stream without the trailing bytes)
EncodedPart == SubSeq(vBytes, 1, Len(vBytes) - Len(vTail))

\* the least number of 7-bit groups that hold v (v < 2^(7n))
MinGroups(v) ==
    IF v[1] = 0 /\ v[2] < Pow2(7) THEN 1
    ELSE IF v[1] = 0 /\ v[2] < Pow2(14) THEN 2
    ELSE IF v[1] < Pow2(21 - 16) THEN 3
    ELSE IF v[1] < Pow2(28 - 16) THEN 4
    ELSE 5

\* C3: decoding the encoding of a u32 value returns exactly that value and
\* leaves the cursor right after the encoded bytes.
C3_VarintRoundTrip ==
    vResult.kind # "none" =>
        /\ vResult.kind = "ok"
        /\ vResult.value = vValue
        /\ vResult.pos = Len(vBytes) - Len(vTail)

C3_Witness ==
    /\ vResult.kind = "ok"
    /\ vValue = U32Max
    /\ vTail = <<129, 1>>
    /\ vResult.pos = 5

\* C4: the encoding has the minimum number of 7-bit groups (one zero byte
\* for 0), at most 5 bytes, the high bit set on every byte but the last.
C4_VarintMinimal ==
    vBytes # <<>> =>
        LET enc == EncodedPart
        IN  /\ Len(enc) = MinGroups(vValue)
            /\ Len(enc) <= 5
            /\ \A i \in 1..(Len(enc) - 1) : enc[i] \in 128..255
            /\ enc[Len(enc)] \in 0..127
            /\ (vValue = U32Zero => enc = <<0>>)

C4_Witness ==
    /\ vBytes # <<>>
    /\ vValue = U32FromNat(Pow2(28))
    /\ Len(EncodedPart) = 5

(***************************************************************************)
(* Claims about the palette.                                               *)
(***************************************************************************)
\* C7 (state part): every id handed out still yields its block state, a
\* repeated get_or_insert returns the id of the first call, id 0 is air
\* with no properties, ids at or beyond len() yield no value.
C7_PaletteState ==
    /\ PaletteGet(palette, 0) = Some([name |-> "minecraft:air", properties |-> {}])
    /\ \A b \in DOMAIN issued : PaletteGet(palette, issued[b]) = Some(b)
    /\ \A id \in PaletteLen(palette)..(PaletteLen(palette) + 2) :
           PaletteGet(palette, id) = None
    /\ ret.op = "get_or_insert" => ret.id = issued[ret.block]

\* C7 (step part): a value-equal state leaves len() alone, a new state gets
\* id = previous len(), and no existing id changes its block state.
C7_PaletteStep ==
    ret'.op = "get_or_insert" =>
        /\ IF \E id \in 0..(PaletteLen(palette) - 1) :
                  PaletteGet(palette, id) = Some(ret'.block)
           THEN /\ PaletteLen(palette') = PaletteLen(palette)
                /\ PaletteGet(palette, ret'.id) = Some(ret'.block)
           ELSE /\ ret'.id = PaletteLen(palette)
                /\ PaletteLen(palette') = PaletteLen(palette) + 1
        /\ \A id \in 0..(PaletteLen(palette) - 1) :
               PaletteGet(palette', id) = PaletteGet(palette, id)

\* C7: palette stability - get_or_insert is idempotent for value-equal
\* states, new states get id = previous len() in insertion order, ids are
\* never renumbered, get(0) is air and get(id >= len()) is no value.
C7_PaletteStability == []C7_PaletteState /\ [][C7_PaletteStep]_vars

\* stone = 1, dirt = 2, stone again = 1, len() = 3
C7_Witness ==
    /\ ret.op = "get_or_insert"
    /\ ret.block = Stone
    /\ ret.id = 1
    /\ palette = <<Air, Stone, Dirt>>
    /\ ops = 3


(***************************************************************************)
(* Claims about the schematic and its codec.                               *)
(***************************************************************************)
\* the whole encoded file has been decoded
WholeFileDecoded == ret.op = "from_schematic" /\ ret.name = ""

SingleRegion == Cardinality(DOMAIN regions) = 1
TheRegion(rs) == rs[CHOOSE n \in DOMAIN rs : TRUE]

\* the schematic was built by block / entity / block-entity mutations only
BuiltByMutations ==
    calls \subseteq {"set_block_in_region", "add_entity_in_region",
                     "add_block_entity_in_region"}

\* only set_block calls (writes to the default region) have been made
OnlySetBlock ==
    /\ calls = {"set_block_in_region"}
    /\ \A w \in written : w[1] = DefaultRegionName

WrittenCoords == {w[2] : w \in written}
MinOf(S) == CHOOSE m \in S : \A n \in S : m <= n
MaxOf(S) == CHOOSE m \in S : \A n \in S : m >= n

\* C1: round trip of blocks - decoding the encoding of a single-region
\* schematic yields the same get_block result at every coordinate of the
\* original region.
C1_RoundTripBlocks ==
    (WholeFileDecoded /\ SingleRegion /\ BuiltByMutations) =>
        /\ loaded.kind = "ok"
        /\ \A c \in Probes :
               RegionIsInRegion(TheRegion(regions), c) =>
                   \A o1 \in Orders(DOMAIN regions), o2 \in Orders(DOMAIN loaded.regions) :
                       get_block(loaded.regions, loaded.palette, o2, c)
                           = get_block(regions, palette, o1, c)

\* C2: round trip of structure - decoding the encoding of a single-region
\* schematic yields one region, the same metadata name and the same number
\* of entities and of block entities in its region.
C2_RoundTripStructure ==
    (WholeFileDecoded /\ SingleRegion) =>
        /\ loaded.kind = "ok"
        /\ Cardinality(DOMAIN loaded.regions) = Cardinality(DOMAIN regions)
        /\ loaded.metadata.name = metadata.name
        /\ Len(TheRegion(loaded.regions).entities) = Len(TheRegion(regions).entities)
        /\ Cardinality(DOMAIN TheRegion(loaded.regions).block_entities)
               = Cardinality(DOMAIN TheRegion(regions).block_entities)

C2_Witness ==
    /\ WholeFileDecoded
    /\ SingleRegion
    /\ BuiltByMutations
    /\ loaded.kind = "ok"
    /\ Len(TheRegion(regions).entities) = 1
    /\ Cardinality(DOMAIN TheRegion(regions).block_entities) = 1

\* C5: after a non-empty sequence of set_block calls on a fresh schematic
\* the region "Main" has position = componentwise minimum and size =
\* componentwise (max - min + 1) of the written coordinates.
C5_RegionExtent ==
    OnlySetBlock =>
        /\ "Main" \in DOMAIN regions
        /\ \A i \in 1..3 :
               LET vs == {c[i] : c \in WrittenCoords}
               IN  /\ regions["Main"].position[i] = MinOf(vs)
                   /\ regions["Main"].size[i] = MaxOf(vs) - MinOf(vs) + 1

C5_Witness ==
    /\ OnlySetBlock
    /\ WrittenCoords = {<<0 - 1, 0, 0>>, <<1, 1, 0 - 1>>}
    /\ regions["Main"].position = <<0 - 1, 0, 0 - 1>>
    /\ regions["Main"].size = <<3, 2, 2>>

C8_GrowthStep ==
    (/\ ret'.op = "set_block_in_region"
     /\ ret'.name \in DOMAIN regions
     /\ ~RegionIsInRegion(regions[ret'.name], ret'.pos)) =>
        \A c \in Probes :
            RegionIsInRegion(regions[ret'.name], c) =>
                /\ RegionGetBlockIndex(regions'[ret'.name], c)
                       = RegionGetBlockIndex(regions[ret'.name], c)
                /\ get_block_from_region(regions', palette', ret'.name, c)
                       = get_block_from_region(regions, palette, ret'.name, c)

\* C8: region growth loses no data - the step property above holds of every
\* write, whatever sequence of writes came before it.
C8_GrowthKeepsData == [][C8_GrowthStep]_vars

\* stone at (0,0,0), then wool at (-1,0,0): the region grew towards negative
\* x and the stone moved to the second cell
C8_Witness ==
    /\ ret.op = "set_block_in_region"
    /\ ret.name = "Main"
    /\ ret.pos = <<0 - 1, 0, 0>>
    /\ "Main" \in DOMAIN regions
    /\ regions["Main"].position = <<0 - 1, 0, 0>>
    /\ regions["Main"].blocks = <<2, 1>>
    /\ get_block_from_region(regions, palette, "Main", <<0, 0, 0>>) = Some(Stone)

\* C9 (state part): region names stay unique - every region is stored
\* under its own name.
C9_UniqueNames ==
    \A k1, k2 \in DOMAIN regions :
        /\ regions[k1].name = k1
        /\ (regions[k1].name = regions[k2].name => k1 = k2)

\* C9 (step part): add_region with an existing name returns false and
\* changes nothing; with a fresh name it returns true and adds that region.
C9_AddRegionStep ==
    ret'.op = "add_region" =>
        IF ret'.name \in DOMAIN regions
        THEN /\ ret'.ok = FALSE
             /\ regions' = regions
             /\ palette' = palette
             /\ metadata' = metadata
        ELSE /\ ret'.ok = TRUE
             /\ DOMAIN regions' = (DOMAIN regions) \cup {ret'.name}
             /\ \A n \in DOMAIN regions : regions'[n] = regions[n]
             /\ regions'[ret'.name] \in AddRegionInputs
             /\ regions'[ret'.name].name = ret'.name

\* C9: add_region never overwrites - a duplicate name returns false and
\* leaves the schematic unchanged, a fresh name returns true and adds
\* exactly that region, and region names stay unique.
C9_AddRegion == []C9_UniqueNames /\ [][C9_AddRegionStep]_vars

\* a rejected add_region: the existing 2x2x1 region is still there
C9_Witness ==
    /\ ret.op = "add_region"
    /\ ret.ok = FALSE
    /\ ret.name = "Main"
    /\ "Main" \in DOMAIN regions
    /\ regions["Main"].size = <<2, 2, 1>>

\* C10: from_schematic returns an error whenever any one of Width, Height,
\* Length, DataVersion or BlockData is absent from the root.
C10_MissingFieldFatal ==
    (ret.op = "from_schematic"
        /\ ret.name \in {"Width", "Height", "Length", "DataVersion", "BlockData"}) =>
        loaded.kind = "err"

(***************************************************************************)
(* Claims about the format sniff and the decoder on hand-made files.       *)
(***************************************************************************)
\* the primitive type each sniffed field must have
SniffType(field) ==
    CASE field \in {"Version", "DataVersion"} -> "Int"
      [] field \in {"Width", "Height", "Length"} -> "Short"
      [] field = "BlockData" -> "ByteArray"

\* C11: is_schematic returns normally on every buffer, and returns true
\* exactly when the buffer is the gzip of a tag tree in which Version,
\* DataVersion (int), Width, Height, Length (short) and BlockData (byte
\* array) are all present with those types.
C11_FormatSniff ==
    ret.op = "is_schematic" =>
        /\ ret.name = "ok"
        /\ ret.ok <=>
              /\ file.kind = "ok"
              /\ \A f \in SniffFields :
                     f \in DOMAIN file.root /\ file.root[f].tag = SniffType(f)

\* a buffer that is not gzip data has been sniffed: false, no error
C11_Witness ==
    /\ ret.op = "is_schematic"
    /\ file.kind = "not_gzip"
    /\ ret.name = "ok"
    /\ ret.ok = FALSE

\* the whole hand-made file has been decoded
DecodedWhole == ret.op = "from_schematic" /\ ret.name = ""

\* the fields from_schematic reads are present with their types
WellFormedRoot(root) ==
    /\ \A f \in {"Width", "Height", "Length"} : IsSome(NbtGet(root, f, "Short"))
    /\ IsSome(NbtGet(root, "Palette", "Compound"))
    /\ IsSome(NbtGet(root, "PaletteMax", "Int"))
    /\ IsSome(NbtGet(root, "BlockData", "ByteArray"))
    /\ IsSome(NbtGet(root, "BlockEntities", "List"))

\* Width, Height or Length is negative
NegativeDimensions(root) ==
    \E f \in {"Width", "Height", "Length"} : root[f].value < 0

\* the <<key, id>> pairs of the Int entries of the file's palette
PaletteIds(root) ==
    LET compound == root["Palette"].value
    IN  {<<k, compound[k].value>> : k \in {k \in DOMAIN compound : compound[k].tag = "Int"}}

\* the block state a key was written for
KnownStates == {Air, Stone, Dirt, WoolRed, WoolRedNorth}
StateOfKey(key) == CHOOSE bs \in KnownStates : FormatBlockState(bs) = key

\* the palette maps distinct keys to distinct ids, all within 0..PaletteMax
HolesOnly(root) ==
    /\ root["PaletteMax"].value >= 0
    /\ \A e \in PaletteIds(root) : e[2] \in 0..root["PaletteMax"].value
    /\ \A e1, e2 \in PaletteIds(root) : e1[2] = e2[2] => e1 = e2

\* C12: decoding a file whose palette maps only some of the ids in
\* 0..PaletteMax succeeds; the decoded region palette has PaletteMax + 1
\* entries, a mapped id holds the block state of its key, an unmapped id
\* holds air without properties.  The file is otherwise as an encoder
\* writes it: its dimensions are not negative.
C12_PaletteHoles ==
    (/\ DecodedWhole
     /\ WellFormedRoot(file.root)
     /\ ~NegativeDimensions(file.root)
     /\ HolesOnly(file.root)) =>
        /\ loaded.kind = "ok"
        /\ LET pal == loaded.regions["Main"].palette
               n == file.root["PaletteMax"].value
           IN  /\ Len(pal) = n + 1
               /\ \A id \in 0..n :
                      pal[id + 1] =
                          IF \E e \in PaletteIds(file.root) : e[2] = id
                          THEN StateOfKey((CHOOSE e \in PaletteIds(file.root) : e[2] = id)[1])
                          ELSE Air

\* stone at id 1 and two-property wool at id 3 of 0..4: ids 0, 2 and 4 are air
C12_Witness ==
    /\ DecodedWhole
    /\ loaded.kind = "ok"
    /\ file.root["PaletteMax"].value = 4
    /\ loaded.regions["Main"].palette = <<Air, Stone, Air, WoolRedNorth, Air>>

\* the BlockData bytes of a file as unsigned bytes
FileBytes(root) ==
    LET i8s == root["BlockData"].value
    IN  AsSeq([i \in 1..Len(i8s) |-> (i8s[i] + 256) % 256])

\* a byte with the continuation bit set, a byte that ends a varint
IsContinuation(b) == b >= 128
Terminators(bytes) == {i \in 1..Len(bytes) : ~IsContinuation(bytes[i])}

\* a run of five continuation bytes starts at byte i
LongRunAt(bytes, i) ==
    /\ i + 4 <= Len(bytes)
    /\ \A j \in i..(i + 4) : IsContinuation(bytes[j])
    /\ (i = 1 \/ ~IsContinuation(bytes[i - 1]))

\* the stream is a concatenation of complete varints of at most five bytes
CompleteVarints(bytes) ==
    /\ (bytes # <<>> => ~IsContinuation(bytes[Len(bytes)]))
    /\ ~\E i \in 1..Len(bytes) : LongRunAt(bytes, i)

DeclaredVolume(root) ==
    root["Width"].value * root["Height"].value * root["Length"].value

\* C13: when the number of ids in BlockData differs from Width x Height x
\* Length, from_schematic still succeeds and the region's block array is
\* exactly the decoded id sequence: one id per varint, and the ids encode
\* back to the bytes of BlockData.
C13_LengthMismatchLenient ==
    (/\ DecodedWhole
     /\ WellFormedRoot(file.root)
     /\ CompleteVarints(FileBytes(file.root))
     /\ Cardinality(Terminators(FileBytes(file.root))) # DeclaredVolume(file.root)) =>
        /\ loaded.kind = "ok"
        /\ LET blocks == loaded.regions["Main"].blocks
           IN  /\ Len(blocks) = Cardinality(Terminators(FileBytes(file.root)))
               /\ Flatten(AsSeq([i \in 1..Len(blocks) |->
                                  encode_varint(U32FromNat(blocks[i]))]))
                      = FileBytes(file.root)

\* the number of continuation bytes at the head of a stream
RECURSIVE LeadingRun(_)
LeadingRun(bytes) ==
    IF bytes # <<>> /\ IsContinuation(Head(bytes)) THEN 1 + LeadingRun(Tail(bytes)) ELSE 0

\* C14: decode_varint returns a value only at a byte whose continuation bit
\* is clear, after reading every byte before it; a stream with more than 5
\* continuation bytes yields the decode error and the cursor stops where the
\* overflow is found, however long the run is; a stream that ends before a
\* terminating byte yields an error, never a value.
C14_VarintDecodeBounded ==
    ret.op = "decode_varint" =>
        LET k == LeadingRun(vBytes)
        IN  /\ vResult.kind \in {"ok", "err"}
            /\ vResult.pos <= Len(vBytes)
            /\ vResult.kind = "ok" =>
                   /\ vResult.pos = k + 1
                   /\ ~IsContinuation(vBytes[vResult.pos])
            /\ k > 5 =>
                   /\ vResult.kind = "err"
                   /\ vResult.error = "Varint is too long"
                   /\ vResult.pos <= 6
            /\ k = Len(vBytes) => vResult.kind = "err"

\* seven continuation bytes and a terminating byte: the error, five bytes read
C14_Witness ==
    /\ ret.op = "decode_varint"
    /\ LeadingRun(vBytes) = 7
    /\ Len(vBytes) = 8
    /\ vResult.kind = "err"
    /\ vResult.pos = 5

\* the stream holds more than five continuation bytes in a row
HasOverlongVarint(bytes) ==
    \E i \in 1..Len(bytes) :
        /\ i + 5 <= Len(bytes)
        /\ \A j \in i..(i + 5) : IsContinuation(bytes[j])

\* C15: when BlockData of an otherwise well-formed file holds a varint with
\* more than 5 continuation bytes, from_schematic returns an error instead
\* of a schematic.
C15_VarintOverflowFatal ==
    (/\ DecodedWhole
     /\ WellFormedRoot(file.root)
     /\ HasOverlongVarint(FileBytes(file.root))) =>
        loaded.kind = "err"

(***************************************************************************)
(* Claims about the encoder.                                               *)
(***************************************************************************)
\* C16: the Width, Height and Length fields written for a bounding box are
\* the absolute values of its dimensions, and their product is the number
\* of cells of the merged region, which is the number of ids in BlockData.
C16_EncodedDimensions ==
    hdr.kind # "none" =>
        /\ hdr.kind = "ok"
        /\ hdr.width = Abs(hdr.dims[1])
        /\ hdr.height = Abs(hdr.dims[2])
        /\ hdr.length = Abs(hdr.dims[3])
        /\ hdr.width * hdr.height * hdr.length = Volume(hdr.dims)

\* the index of the first cell of a block array that holds an id
FirstCell(blocks, id) ==
    CHOOSE i \in 1..Len(blocks) : blocks[i] = id /\ \A j \in 1..(i - 1) : blocks[j] # id

\* C17: the merged region spans the union bounding box; each of its cells
\* holds the block state get_block finds there (the owning region's id
\* through the schematic-wide palette), or air where no region covers the
\* cell; its palette is dense: no state twice, every id 0..len-1 in use,
\* ids in scan order of first occurrence.
C17_RegionMerge ==
    lastMerged.kind = "ok" =>
        LET m == lastMerged.region
            bb == get_bounding_box(regions, lastMerged.order)
            n == Len(m.palette)
        IN  /\ m.position = bb.min
            /\ m.size = BBGetDimensions(bb)
            /\ Len(m.blocks) = Volume(m.size)
            /\ \A i \in 1..Len(m.blocks) :
                   LET found == get_block(regions, palette, lastMerged.order,
                                          IndexToCoords(m, i - 1))
                   IN  /\ m.blocks[i] \in 0..(n - 1)
                       /\ m.palette[m.blocks[i] + 1] =
                              IF IsSome(found) THEN Unwrap(found) ELSE Air
            /\ \A a, b \in 1..n : m.palette[a] = m.palette[b] => a = b
            /\ {m.blocks[i] : i \in 1..Len(m.blocks)} = 0..(n - 1)
            /\ \A a, b \in 0..(n - 1) :
                   a < b => FirstCell(m.blocks, a) < FirstCell(m.blocks, b)

\* stone in one region, red wool in another, an uncovered cell between them
C17_Witness ==
    /\ lastMerged.kind = "ok"
    /\ Cardinality(DOMAIN regions) = 2
    /\ lastMerged.region.palette = <<Stone, Air, WoolRed>>
    /\ lastMerged.region.blocks = <<0, 1, 2>>

\* the ids that the BlockData of a file decodes to
FileIds(root) ==
    LET ids == DecodeAll(FileBytes(root), 0, <<>>).values
    IN  {U32ToNat(ids[i]) : i \in 1..Len(ids)}

\* C18: the PaletteMax written by to_schematic is the largest id that occurs
\* in the encoded BlockData.
C18_PaletteMaxIsMaxUsed ==
    file.kind = "ok" =>
        /\ FileIds(file.root) # {}
        /\ file.root["PaletteMax"].value = MaxOf(FileIds(file.root))

\* C20: in the Palette compound that convert_palette builds, no two distinct
\* keys map to the same id, whatever the input palette.
C20_PaletteInjective ==
    conv.kind = "ok" =>
        \A k1, k2 \in DOMAIN conv.compound :
            conv.compound[k1].value = conv.compound[k2].value => k1 = k2

(***************************************************************************)
(* Claims about reads of cells that were never written.                    *)
(***************************************************************************)
\* C19: get_block returns no value at every coordinate that no set_block
\* call has written, outside every region's bounding box and inside a grown
\* region alike; get_block_from_region returns no value for a region name
\* that is not in the schematic.
C19_NeverWrittenIsNone ==
    /\ \A c \in Probes :
           (~\E n \in RegionNames : <<n, c>> \in written) =>
               \A order \in Orders(DOMAIN regions) :
                   get_block(regions, palette, order, c) = None
    /\ \A n \in RegionNames \ DOMAIN regions :
           \A c \in Probes : get_block_from_region(regions, palette, n, c) = None

(***************************************************************************)
(* Claims about the decoder on files no encoder writes.                    *)
(***************************************************************************)
\* a palette id is negative or above PaletteMax, or PaletteMax is negative
OutOfRangePalette(root) ==
    \/ root["PaletteMax"].value < 0
    \/ \E e \in PaletteIds(root) : e[2] < 0 \/ e[2] > root["PaletteMax"].value

\* C21: from_schematic returns a schematic or an error value on every
\* buffer and never aborts; a palette id that is negative or above
\* PaletteMax, a negative PaletteMax, and negative Width, Height or Length
\* (a product that overflows 32 bits included) give an error result.
C21_DecodeNeverCrashes ==
    ret.op = "from_schematic" =>
        /\ loaded.kind \in {"ok", "err"}
        /\ (/\ DecodedWhole
            /\ WellFormedRoot(file.root)
            /\ OutOfRangePalette(file.root) \/ NegativeDimensions(file.root)) =>
               loaded.kind = "err"

(***************************************************************************)
(* Claims about block entities.                                            *)
(***************************************************************************)
\* only set_block, add_block_entity and remove_block_entity calls, on the
\* default region or on a named one, have been made
OnlyBlocksAndBlockEntities ==
    calls \subseteq {"set_block_in_region", "add_block_entity_in_region",
                     "remove_block_entity_in_region"}

\* C22: after any sequence of set_block, set_block_in_region,
\* add_block_entity, add_block_entity_in_region and remove_block_entity
\* calls on a fresh schematic, every block entity stored in a region is
\* keyed by its position and that position lies inside the region's
\* bounding box.
C22_BlockEntitiesInside ==
    OnlyBlocksAndBlockEntities =>
        \A n \in DOMAIN regions :
            \A pos \in DOMAIN regions[n].block_entities :
                /\ regions[n].block_entities[pos].position = pos
                /\ RegionIsInRegion(regions[n], pos)

====
